---- MODULE Spec2Model ----
(***************************************************************************)
(* The tracking-capture sequence of the link tracker: trackAccess and its  *)
(* three acquisition steps (getDeviceInfo, getLocation, capturePhoto) and   *)
(* the write of the merged record to accesses/<linkId>/<Date.now()>.        *)
(*                                                                         *)
(* The repository holds two versions of the tracking service:              *)
(*   "part_001"        src/unnamed/part_001                                 *)
(*   "trackingService" src/src/services/trackingService.ts (the module     *)
(*                     that pages/Tracking.tsx imports)                     *)
(* The variable impl says which of the two a behaviour runs.               *)
(*                                                                         *)
(* trackAccess is called by the Tracking page (src/src/pages/Tracking.tsx, *)
(* variable page). The link service of src/unnamed/part_000 (generateLink, *)
(* validateLink, trackLinkAccess, getLinkAccesses) has its own variables   *)
(* and its own specifications, SpecLinks and SpecDashboard.                *)
(***************************************************************************)
EXTENDS Integers, FiniteSets, Sequences, TLC

VARIABLES impl, scenario, clock, pc, trackingData, linkId, position, stream,
          inflight, requested, accessPath, store, overwritten, history, page,
          links, gen, val, dash, acc

vars == <<impl, scenario, clock, pc, trackingData, linkId, position, stream,
          inflight, requested, accessPath, store, overwritten, history, page,
          links, gen, val, dash, acc>>

\* the state of the link service (part_000): the records under links/, the
\* current call of generateLink, the last call of validateLink, the
\* listeners and lists of getLinkAccesses, and the calls of trackLinkAccess
linkVars == <<links, gen, val, dash, acc>>

\* the state of the visits: everything but the clock, the store under
\* accesses/ and the link service
visitVars == <<impl, scenario, pc, trackingData, linkId, position, stream,
               inflight, requested, accessPath, overwritten, history, page>>

(* ------------------------------ bounds -------------------------------- *)

\* Number of trackAccess invocations (page visits) that may run concurrently.
NumVisits == 2

\* Date.now() ranges over 1..MaxClock.
MaxClock == 3

\* Number of calls of generateLink in a behaviour.
MaxGenerate == 2

\* Number of calls of trackLinkAccess in a behaviour.
MaxAccess == 2

\* Number of lists getLinkAccesses hands to its callback in a behaviour.
MaxDeliveries == 3

Visits == 1..NumVisits

Impls == {"part_001", "trackingService"}

Links == {"abc123_user1", "xyz789_user2"}

\* A value that JavaScript reports as undefined (a missing property).
Undefined == "undefined"

(* ------------------------- getDeviceInfo ------------------------------ *)

MobileTokens == {"Mobile", "Tablet", "iPad", "iPhone", "Android"}

OsTokens == {"Windows", "Mac", "Linux", "Android", "iOS"}

BrowserTokens == {"Chrome", "Firefox", "Safari", "Edge"}

\* RegExp.exec(userAgent)?.[0] || 'Unknown' for an alternation of tokens: the
\* leftmost token of the user agent that is one of the alternatives.
RECURSIVE FirstMatch(_, _)
FirstMatch(tokens, userAgent) ==
    IF userAgent = <<>> THEN "Unknown"
    ELSE IF Head(userAgent) \in tokens THEN Head(userAgent)
    ELSE FirstMatch(tokens, Tail(userAgent))

\* navigator/window as getDeviceInfo reads them. A user agent is the sequence
\* of the words in it; readable = FALSE is an environment whose introspection
\* throws.
Navigators ==
    { [readable |-> TRUE, width |-> 1920, height |-> 1080,
       userAgent |-> <<"Mozilla", "Windows", "Chrome", "Safari">>],
      [readable |-> TRUE, width |-> 390, height |-> 844,
       userAgent |-> <<"Mozilla", "iPhone", "Mac", "Mobile", "Safari">>],
      [readable |-> FALSE, width |-> 0, height |-> 0, userAgent |-> <<>>] }

\* getDeviceInfo whose catch block still formats the screen size
getDeviceInfoPartialFallback(nav) ==
    IF nav.readable
    THEN [type |-> IF \E i \in 1..Len(nav.userAgent) : nav.userAgent[i] \in MobileTokens
                   THEN "Mobile" ELSE "Desktop",
          os |-> FirstMatch(OsTokens, nav.userAgent),
          browser |-> FirstMatch(BrowserTokens, nav.userAgent),
          screenResolution |-> ToString(nav.width) \o "x" \o ToString(nav.height)]
    ELSE [type |-> "Unknown", os |-> "Unknown", browser |-> "Unknown",
          screenResolution |-> ToString(nav.width) \o "x" \o ToString(nav.height)]

getDeviceInfo(nav) ==
    IF nav.readable
    THEN [type |-> IF \E i \in 1..Len(nav.userAgent) : nav.userAgent[i] \in MobileTokens
                   THEN "Mobile" ELSE "Desktop",
          os |-> FirstMatch(OsTokens, nav.userAgent),
          browser |-> FirstMatch(BrowserTokens, nav.userAgent),
          screenResolution |-> ToString(nav.width) \o "x" \o ToString(nav.height)]
    ELSE [type |-> "Unknown", os |-> "Unknown", browser |-> "Unknown",
          screenResolution |-> "Unknown"]

(* --------------------------- getLocation ------------------------------ *)

\* What the position request is rejected with. The platform location service
\* reports a GeolocationPositionError, which is not an instance of Error
\* (isError = FALSE) and carries code 1 (permission denied), 2 (unavailable)
\* or 3 (timeout); a missing navigator.geolocation makes the request throw a
\* TypeError (isError = TRUE, no code: 0).
PositionErrors ==
    { [isError |-> FALSE, code |-> 1], [isError |-> FALSE, code |-> 2],
      [isError |-> FALSE, code |-> 3], [isError |-> TRUE, code |-> 0] }

\* catch block of getLocation, part_001
locationErrorMessage(error) ==
    IF error.isError /\ error.code = 1
    THEN "Location access denied by user"
    ELSE "Location not available or access denied"

\* catch block of getLocation, trackingService.ts
locationErrorMessageLegacy(error) == "Location access denied"

Latitudes == {0, 10}

Longitudes == {20}

\* String.prototype.toUpperCase on the country codes of the model.
toUpperCase(s) ==
    CASE s = "br" -> "BR"
      [] s = "us" -> "US"
      [] OTHER -> s

\* JSON bodies the reverse-geocoding service answers with.
GeocodeBodies ==
    { [hasAddress |-> TRUE, country |-> "Brasil", country_code |-> "br",
       city |-> "Rio", town |-> Undefined],
      [hasAddress |-> TRUE, country |-> "Brasil", country_code |-> "br",
       city |-> Undefined, town |-> "Paraty"],
      [hasAddress |-> FALSE, country |-> Undefined, country_code |-> Undefined,
       city |-> Undefined, town |-> Undefined] }

\* data.address?.<field>
AddressField(data, field) == IF data.hasAddress THEN data[field] ELSE Undefined

\* a || b on strings
OrElse(a, b) == IF a # Undefined /\ a # "" THEN a ELSE b

\* the result of getLocation once response.json() has resolved
enrichedLocation(pos, data) ==
    [location |->
       [latitude |-> pos.latitude,
        longitude |-> pos.longitude,
        country |-> AddressField(data, "country"),
        countryCode |-> IF AddressField(data, "country_code") = Undefined
                        THEN Undefined
                        ELSE toUpperCase(AddressField(data, "country_code")),
        city |-> OrElse(AddressField(data, "city"), AddressField(data, "town"))]]

\* inner catch (geoError) of getLocation, part_001: just the coordinates
coordinatesOnly(pos) ==
    [location |-> [latitude |-> pos.latitude, longitude |-> pos.longitude]]

\* the result of getLocation when fetch or response.json() rejects: part_001
\* has an inner catch, trackingService.ts only the outer one
geocodeFailureResult(pos, error) ==
    IF impl = "part_001" THEN coordinatesOnly(pos)
    ELSE [error |-> locationErrorMessageLegacy(error)]

\* the result of getLocation when the position request is rejected
positionFailureResult(error) ==
    IF impl = "part_001" THEN [error |-> locationErrorMessage(error)]
    ELSE [error |-> locationErrorMessageLegacy(error)]

(* --------------------------- capturePhoto ----------------------------- *)

\* What getUserMedia is rejected with: a DOMException (an Error) named after
\* the reason, or the TypeError of a missing navigator.mediaDevices.
MediaErrors ==
    { [isError |-> TRUE, name |-> "NotAllowedError"],
      [isError |-> TRUE, name |-> "NotFoundError"],
      [isError |-> TRUE, name |-> "TypeError"] }

\* catch block of capturePhoto, part_001
photoErrorMessage(error) ==
    IF error.isError /\ error.name = "NotAllowedError"
    THEN "Camera access denied by user"
    ELSE "Camera not available or access denied"

\* catch block of capturePhoto, trackingService.ts
photoErrorMessageLegacy(error) == "Camera access denied"

mediaFailureResult(error) ==
    IF impl = "part_001" THEN [error |-> photoErrorMessage(error)]
    ELSE [error |-> photoErrorMessageLegacy(error)]

\* canvas.toDataURL('image/jpeg'); "data:," is what a canvas without pixels gives
Photos == {"data:image/jpeg;base64", "data:,"}

\* video.onloadedmetadata: what the promise resolves with, given whether
\* canvas.getContext('2d') returned a context
metadataResult(hasCtx, photo) ==
    IF hasCtx THEN [photo |-> photo]
    ELSE [error |-> "Could not get canvas context"]

\* the stream's tracks after the onloadedmetadata handler: stopped only in the
\* branch that has a context
streamAfterMetadata(hasCtx) == IF hasCtx THEN "stopped" ELSE "live"

(* ---------------------------- trackAccess ----------------------------- *)

NoErrors == [k \in {} |-> ""]

Truthy(s) == s # "" /\ s # Undefined

\* trackingData as trackAccess initializes it
newTrackingData(now, nav) ==
    [timestamp |-> now, device |-> getDeviceInfo(nav), errors |-> NoErrors]

\* if (locationResult.location) ... else if (locationResult.error) ...
mergeLocation(td, result) ==
    IF "location" \in DOMAIN result
    THEN ("location" :> result.location) @@ td
    ELSE IF "error" \in DOMAIN result /\ Truthy(result.error)
    THEN [td EXCEPT !.errors = ("location" :> result.error) @@ @]
    ELSE td

\* mergePhoto without its else-if branch: a failed capture leaves no trace
mergePhotoNoError(td, result) ==
    IF "photo" \in DOMAIN result /\ Truthy(result.photo)
    THEN ("photo" :> result.photo) @@ td
    ELSE td

\* if (photoResult.photo) ... else if (photoResult.error) ...
mergePhoto(td, result) ==
    IF "photo" \in DOMAIN result /\ Truthy(result.photo)
    THEN ("photo" :> result.photo) @@ td
    ELSE IF "error" \in DOMAIN result /\ Truthy(result.error)
    THEN [td EXCEPT !.errors = ("photo" :> result.error) @@ @]
    ELSE td

\* catch (saveError) of trackAccess, part_001
markSaveFailed(td) ==
    [td EXCEPT !.errors = ("save" :> "Failed to save tracking data") @@ @]

\* `accesses/${linkId}/${Date.now()}`
accessRef(link, now) == <<"accesses", link, now>>

Services == {"position", "geocode", "media", "metadata", "write"}

NoPosition == [acquired |-> FALSE, latitude |-> 0, longitude |-> 0]

NoPath == <<"accesses", "", 0>>

NoHistory ==
    [position |-> "none", positionError |-> [isError |-> FALSE, code |-> 0],
     geocode |-> "none", media |-> "none",
     mediaError |-> [isError |-> FALSE, name |-> ""],
     context |-> "none", write |-> "none", introspection |-> "none"]

(* ---------------------------- link service ---------------------------- *)

\* the userId arguments: a missing one and two users
UserIds == {"", "user1", "user2"}

\* what uuidv4() returns
UniqueIds == {"id1", "id2"}

\* window.location.origin
Origin == "https://myspy.example"

\* `${uniqueId}_${userId}`
linkIdOf(uniqueId, userId) == uniqueId \o "_" \o userId

\* `${baseUrl}/track/${linkId}`
linkUrl(link) == Origin \o "/track/" \o link

\* linkData of generateLink
newLinkData(userId, now, link) ==
    [userId |-> userId, createdAt |-> now, url |-> linkUrl(link)]

NoGenerate ==
    [pc |-> "idle", userId |-> "", uniqueId |-> "", linkId |-> "",
     createdAt |-> 0, result |-> "", error |-> "", writes |-> 0, calls |-> 0,
     before |-> [l \in {} |-> 0]]

\* What validateLink resolves with. onValue returns its unsubscribe function
\* at once, and await hands that function on: the value of snapshot.exists()
\* stays inside the listener. A throwing lookup ends in the catch block.
validateLinkResult(exists, lookupThrows) ==
    IF lookupThrows THEN [type |-> "boolean", value |-> FALSE]
    ELSE [type |-> "function", value |-> TRUE]

NoValidate ==
    [called |-> FALSE, linkId |-> "", exists |-> FALSE, failed |-> FALSE,
     result |-> [type |-> "boolean", value |-> FALSE]]

NoDashboard ==
    [called |-> FALSE, subscribed |-> FALSE, userId |-> "", linksPending |-> FALSE,
     arrays |-> <<>>, listeners |-> {}, pending |-> {}, delivered |-> <<>>,
     deliveries |-> 0]

\* the accessData arguments of trackLinkAccess
AccessDataInputs == {[userAgent |-> "A"], [userAgent |-> "B"]}

\* data of trackLinkAccess: {timestamp: Date.now(), ...accessData}
newAccessData(now, accessData) == accessData @@ [timestamp |-> now]

\* no call of trackLinkAccess yet
NoAccess == [calls |-> 0, pending |-> {}, rejected |-> {}]

\* Array.prototype.sort with (a, b) => b.timestamp - a.timestamp (stable):
\* x goes behind every element that is not older than it
RECURSIVE InsertByTimestamp(_, _)
InsertByTimestamp(x, sorted) ==
    IF sorted = <<>> THEN <<x>>
    ELSE IF Head(sorted).timestamp >= x.timestamp
    THEN <<Head(sorted)>> \o InsertByTimestamp(x, Tail(sorted))
    ELSE <<x>> \o sorted

RECURSIVE sortNewestFirst(_)
sortNewestFirst(list) ==
    IF list = <<>> THEN <<>>
    ELSE InsertByTimestamp(list[Len(list)], sortNewestFirst(SubSeq(list, 1, Len(list) - 1)))

\* Object.entries(accessesData) of the snapshot of accesses/<link>, mapped to
\* {linkId, timestamp: Number(key), ...data}: the keys are integers, so they
\* come in ascending order, and the timestamp of the spread data (the second
\* Date.now() of trackLinkAccess) replaces the one taken from the key. The
\* field key is not in the code's object: it records the store key the entry
\* was read from, for the statement of C17.
RECURSIVE accessEntries(_, _)
accessEntries(link, from) ==
    IF from > MaxClock + 1 THEN <<>>
    ELSE (IF accessRef(link, from) \in DOMAIN store
          THEN <<store[accessRef(link, from)].value
                   @@ [linkId |-> link, timestamp |-> from, key |-> from]>>
          ELSE <<>>)
         \o accessEntries(link, from + 1)

\* the keys of the snapshot of links where userId equals the given one
linksOf(userId) == {l \in DOMAIN links : links[l].userId = userId}

(* --------------------------- Tracking page ---------------------------- *)

\* the state of the Tracking component before its effect runs
NewPage ==
    [step |-> "unmounted", linkId |-> "", status |-> "Iniciando rastreamento...",
     error |-> "", progress |-> 0, warnings |-> <<>>, redirect |-> "none"]

\* handleTracking without the guard on linkId
startTrackingUnguarded(pg, link) ==
    [pg EXCEPT !.step = "p25", !.linkId = link, !.progress = 25,
               !.status = "Coletando informações do dispositivo..."]

\* handleTracking up to its first await: the guard on linkId, then step 1
startTracking(pg, link) ==
    IF ~Truthy(link)
    THEN [pg EXCEPT !.step = "invalid", !.linkId = link, !.error = "Link inválido"]
    ELSE [pg EXCEPT !.step = "p25", !.linkId = link, !.progress = 25,
                    !.status = "Coletando informações do dispositivo..."]

\* handleTracking after the first and the second timer
nextProgress(pg) ==
    IF pg.step = "p25"
    THEN [pg EXCEPT !.step = "p50", !.progress = 50,
                    !.status = "Obtendo localização..."]
    ELSE [pg EXCEPT !.step = "p75", !.progress = 75, !.status = "Capturando foto..."]

\* the permission warnings handleTracking derives from result.errors
permissionWarnings(result) ==
    (IF "location" \in DOMAIN result.errors /\ Truthy(result.errors.location)
     THEN <<"Localização não disponível - permissão negada">> ELSE <<>>)
    \o
    (IF "photo" \in DOMAIN result.errors /\ Truthy(result.errors.photo)
     THEN <<"Foto não disponível - permissão negada">> ELSE <<>>)

\* handleTracking after await trackAccess(linkId) has resolved with result
trackingCompleted(pg, result) ==
    [pg EXCEPT !.step = "done", !.progress = 100,
               !.warnings = permissionWarnings(result),
               !.status = "Rastreamento concluído!",
               !.redirect = "scheduled"]

\* catch block of handleTracking
trackingFailed(pg) ==
    [pg EXCEPT !.step = "failed", !.error = "Ocorreu um erro durante o rastreamento"]

\* The visits that run in a behaviour: one visit with every input of the
\* model, or NumVisits concurrent visits.
Active == IF scenario = "single" THEN {1} ELSE Visits

InitWith(s, impls) ==
    /\ scenario = s
    /\ impl \in impls
    /\ clock = 1
    /\ pc = [v \in Visits |-> "idle"]
    /\ trackingData = [v \in Visits |-> newTrackingData(0, CHOOSE n \in Navigators : ~n.readable)]
    /\ linkId = [v \in Visits |-> ""]
    /\ position = [v \in Visits |-> NoPosition]
    /\ stream = [v \in Visits |-> "none"]
    /\ inflight = [v \in Visits |-> {}]
    /\ requested = [v \in Visits |-> [s2 \in Services |-> 0]]
    /\ accessPath = [v \in Visits |-> NoPath]
    /\ store = [p \in {} |-> 0]
    /\ overwritten = {}
    /\ history = [v \in Visits |-> NoHistory]
    /\ page = [v \in Visits |-> NewPage]
    /\ links = [l \in {} |-> 0]
    /\ gen = NoGenerate
    /\ val = NoValidate
    /\ dash = NoDashboard
    /\ acc = NoAccess

\* one visit, either version of the service
Init == InitWith("single", Impls)

\* one visit, the service of part_001
InitPart001 == InitWith("single", {"part_001"})

\* concurrent visits, either version of the service
InitConcurrent == InitWith("concurrent", Impls)

(* ------------------------ inputs of a behaviour ----------------------- *)

NavigatorInputs ==
    IF scenario = "single" THEN Navigators
    ELSE {n \in Navigators : n.readable /\ n.width = 1920}

LinkInputs == IF scenario = "single" THEN {"abc123_user1"} ELSE Links

\* what useParams gives the page as linkId: a link, or nothing
RouteInputs == IF scenario = "single" THEN LinkInputs \cup {""} ELSE LinkInputs

LatitudeInputs == IF scenario = "single" THEN Latitudes ELSE {10}

PositionErrorInputs ==
    IF scenario = "single" THEN PositionErrors
    ELSE {e \in PositionErrors : e.code = 1}

GeocodeBodyInputs ==
    IF scenario = "single" THEN GeocodeBodies
    ELSE {d \in GeocodeBodies : d.city = "Rio"}

MediaErrorInputs ==
    IF scenario = "single" THEN MediaErrors
    ELSE {e \in MediaErrors : e.name = "NotAllowedError"}

PhotoInputs == IF scenario = "single" THEN Photos ELSE {"data:image/jpeg;base64"}

(* ------------------------------ actions ------------------------------- *)

\* Date.now() advances.
Tick ==
    /\ clock < MaxClock
    /\ clock' = clock + 1
    /\ UNCHANGED linkVars
    /\ UNCHANGED <<page, impl, scenario, pc, trackingData, linkId, position, stream,
                   inflight, requested, accessPath, store, overwritten, history>>

\* trackAccess starting getLocation and capturePhoto together (Promise.all)
trackAccessParallel(v, link, nav) ==
    /\ v \in Active
    /\ pc[v] = "idle"
    /\ trackingData' = [trackingData EXCEPT ![v] = newTrackingData(clock, nav)]
    /\ linkId' = [linkId EXCEPT ![v] = link]
    /\ inflight' = [inflight EXCEPT ![v] = @ \cup {"position", "media"}]
    /\ requested' = [requested EXCEPT ![v]["position"] = @ + 1,
                                      ![v]["media"] = @ + 1]
    /\ pc' = [pc EXCEPT ![v] = "position"]
    /\ history' = [history EXCEPT ![v].introspection =
                                    IF nav.readable THEN "ok" ELSE "failed"]
    /\ UNCHANGED linkVars
    /\ UNCHANGED <<impl, scenario, clock, position, stream, accessPath, store,
                   overwritten>>

\* trackAccess(linkId) is called: trackingData is initialized and getLocation
\* asks the platform for the current position.
trackAccess(v, link, nav) ==
    /\ v \in Active
    /\ pc[v] = "idle"
    /\ trackingData' = [trackingData EXCEPT ![v] = newTrackingData(clock, nav)]
    /\ linkId' = [linkId EXCEPT ![v] = link]
    /\ inflight' = [inflight EXCEPT ![v] = @ \cup {"position"}]
    /\ requested' = [requested EXCEPT ![v]["position"] = @ + 1]
    /\ pc' = [pc EXCEPT ![v] = "position"]
    /\ history' = [history EXCEPT ![v].introspection =
                                    IF nav.readable THEN "ok" ELSE "failed"]
    /\ UNCHANGED linkVars
    /\ UNCHANGED <<impl, scenario, clock, position, stream, accessPath, store,
                   overwritten>>

\* The Tracking page is opened at /track/<link>: its effect runs handleTracking.
Mount(v, link) ==
    /\ v \in Active
    /\ page[v].step = "unmounted"
    /\ page' = [page EXCEPT ![v] = startTracking(@, link)]
    /\ UNCHANGED linkVars
    /\ UNCHANGED <<impl, scenario, clock, pc, trackingData, linkId, position,
                   stream, inflight, requested, accessPath, store, overwritten,
                   history>>

\* One of the first two one-second timers of handleTracking fires.
ProgressTimer(v) ==
    /\ page[v].step \in {"p25", "p50"}
    /\ page' = [page EXCEPT ![v] = nextProgress(@)]
    /\ UNCHANGED linkVars
    /\ UNCHANGED <<impl, scenario, clock, pc, trackingData, linkId, position,
                   stream, inflight, requested, accessPath, store, overwritten,
                   history>>

\* The third timer fires: handleTracking sets the status of step 4 and calls
\* trackAccess(linkId).
SaveTimer(v, nav) ==
    /\ page[v].step = "p75"
    /\ page' = [page EXCEPT ![v].step = "tracking",
                            ![v].status = "Salvando informações..."]
    /\ trackAccess(v, page[v].linkId, nav)

\* The two-second timer set after completion fires: navigate('/').
Redirect(v) ==
    /\ page[v].redirect = "scheduled"
    /\ page' = [page EXCEPT ![v].redirect = "navigated"]
    /\ UNCHANGED linkVars
    /\ UNCHANGED <<impl, scenario, clock, pc, trackingData, linkId, position,
                   stream, inflight, requested, accessPath, store, overwritten,
                   history>>

\* getCurrentPosition calls resolve: getLocation goes on to fetch the reverse
\* geocoding of the coordinates.
PositionResolved(v, lat, lon) ==
    /\ pc[v] = "position"
    /\ position' = [position EXCEPT ![v] =
                      [acquired |-> TRUE, latitude |-> lat, longitude |-> lon]]
    /\ inflight' = [inflight EXCEPT ![v] = (@ \ {"position"}) \cup {"geocode"}]
    /\ requested' = [requested EXCEPT ![v]["geocode"] = @ + 1]
    /\ history' = [history EXCEPT ![v].position = "ok"]
    /\ pc' = [pc EXCEPT ![v] = "fetch"]
    /\ UNCHANGED linkVars
    /\ UNCHANGED <<page, impl, scenario, clock, trackingData, linkId, stream,
                   accessPath, store, overwritten>>

\* LocationSettled saving the record after each step instead of once at the end
LocationSettledAndSaved(v, result, settled) ==
    /\ trackingData' = [trackingData EXCEPT ![v] = mergeLocation(@, result)]
    /\ inflight' = [inflight EXCEPT ![v] = (@ \ {settled}) \cup {"media"}]
    /\ requested' = [requested EXCEPT ![v]["media"] = @ + 1,
                                      ![v]["write"] = @ + 1]
    /\ pc' = [pc EXCEPT ![v] = "media"]
    /\ UNCHANGED linkVars
    /\ UNCHANGED <<page, impl, scenario, clock, linkId, position, stream, accessPath,
                   store, overwritten>>

\* getLocation has returned `result`: trackAccess merges it and calls
\* capturePhoto, which asks the platform for the camera.
LocationSettled(v, result, settled) ==
    /\ trackingData' = [trackingData EXCEPT ![v] = mergeLocation(@, result)]
    /\ inflight' = [inflight EXCEPT ![v] = (@ \ {settled}) \cup {"media"}]
    /\ requested' = [requested EXCEPT ![v]["media"] = @ + 1]
    /\ pc' = [pc EXCEPT ![v] = "media"]
    /\ UNCHANGED linkVars
    /\ UNCHANGED <<page, impl, scenario, clock, linkId, position, stream, accessPath,
                   store, overwritten>>

\* getCurrentPosition calls reject.
PositionRejected(v, error) ==
    /\ pc[v] = "position"
    /\ history' = [history EXCEPT ![v].position = "failed",
                                  ![v].positionError = error]
    /\ LocationSettled(v, positionFailureResult(error), "position")

\* fetch resolves with a response; getLocation awaits response.json().
FetchResolved(v) ==
    /\ pc[v] = "fetch"
    /\ pc' = [pc EXCEPT ![v] = "json"]
    /\ UNCHANGED linkVars
    /\ UNCHANGED <<page, impl, scenario, clock, trackingData, linkId, position, stream,
                   inflight, requested, accessPath, store, overwritten, history>>

\* fetch rejects (network failure, timeout).
FetchRejected(v) ==
    /\ pc[v] = "fetch"
    /\ history' = [history EXCEPT ![v].geocode = "failed"]
    /\ LocationSettled(v, geocodeFailureResult(position[v], [isError |-> TRUE, code |-> 0]),
                       "geocode")

\* response.json() rejects (the body is no JSON).
JsonRejected(v) ==
    /\ pc[v] = "json"
    /\ history' = [history EXCEPT ![v].geocode = "failed"]
    /\ LocationSettled(v, geocodeFailureResult(position[v], [isError |-> TRUE, code |-> 0]),
                       "geocode")

\* response.json() resolves with the body `data`.
JsonResolved(v, data) ==
    /\ pc[v] = "json"
    /\ history' = [history EXCEPT ![v].geocode = "ok"]
    /\ LocationSettled(v, enrichedLocation(position[v], data), "geocode")

\* getUserMedia resolves with a stream: capturePhoto attaches it to a video
\* element and waits for onloadedmetadata.
MediaResolved(v) ==
    /\ pc[v] = "media"
    /\ stream' = [stream EXCEPT ![v] = "live"]
    /\ inflight' = [inflight EXCEPT ![v] = (@ \ {"media"}) \cup {"metadata"}]
    /\ requested' = [requested EXCEPT ![v]["metadata"] = @ + 1]
    /\ history' = [history EXCEPT ![v].media = "granted"]
    /\ pc' = [pc EXCEPT ![v] = "metadata"]
    /\ UNCHANGED linkVars
    /\ UNCHANGED <<page, impl, scenario, clock, trackingData, linkId, position,
                   accessPath, store, overwritten>>

\* capturePhoto has returned `result`: trackAccess merges it and calls
\* set(ref(database, `accesses/${linkId}/${Date.now()}`), trackingData).
PhotoSettled(v, result, settled) ==
    /\ trackingData' = [trackingData EXCEPT ![v] = mergePhoto(@, result)]
    /\ accessPath' = [accessPath EXCEPT ![v] = accessRef(linkId[v], clock)]
    /\ inflight' = [inflight EXCEPT ![v] = (@ \ {settled}) \cup {"write"}]
    /\ requested' = [requested EXCEPT ![v]["write"] = @ + 1]
    /\ pc' = [pc EXCEPT ![v] = "write"]
    /\ UNCHANGED linkVars
    /\ UNCHANGED <<page, impl, scenario, clock, linkId, position, store, overwritten>>

\* getUserMedia rejects.
MediaRejected(v, error) ==
    /\ pc[v] = "media"
    /\ history' = [history EXCEPT ![v].media = "rejected",
                                  ![v].mediaError = error]
    /\ UNCHANGED stream
    /\ PhotoSettled(v, mediaFailureResult(error), "media")

\* video.onloadedmetadata fires: play, draw the frame on a canvas, encode it,
\* stop the tracks and resolve.
LoadedMetadata(v, hasCtx, photo) ==
    /\ pc[v] = "metadata"
    /\ stream' = [stream EXCEPT ![v] = streamAfterMetadata(hasCtx)]
    /\ history' = [history EXCEPT ![v].context = IF hasCtx THEN "ok" ELSE "missing"]
    /\ PhotoSettled(v, metadataResult(hasCtx, photo), "metadata")

\* The visits, other than v, whose stored record a write by v to `path` replaces.
Replaced(v, path) ==
    IF path \in DOMAIN store /\ store[path].by # v THEN {store[path].by} ELSE {}

\* set(accessRef, trackingData) resolves: the record is stored and returned.
SetResolved(v) ==
    /\ pc[v] = "write"
    /\ store' = (accessPath[v] :> [value |-> trackingData[v], by |-> v]) @@ store
    /\ overwritten' = overwritten \cup Replaced(v, accessPath[v])
    /\ inflight' = [inflight EXCEPT ![v] = @ \ {"write"}]
    /\ history' = [history EXCEPT ![v].write = "ok"]
    /\ pc' = [pc EXCEPT ![v] = "returned"]
    /\ page' = [page EXCEPT ![v] = trackingCompleted(@, trackingData[v])]
    /\ UNCHANGED linkVars
    /\ UNCHANGED <<impl, scenario, clock, trackingData, linkId, position, stream,
                   requested, accessPath>>

\* what trackAccess does when set rejects: part_001 records errors.save and
\* returns trackingData, trackingService.ts logs and rethrows
saveFailureData(td) == IF impl = "part_001" THEN markSaveFailed(td) ELSE td

saveFailureExit == IF impl = "part_001" THEN "returned" ELSE "thrown"

\* set(accessRef, trackingData) rejects (or ref/set throws).
SetRejected(v) ==
    /\ pc[v] = "write"
    /\ trackingData' = [trackingData EXCEPT ![v] = saveFailureData(@)]
    /\ inflight' = [inflight EXCEPT ![v] = @ \ {"write"}]
    /\ history' = [history EXCEPT ![v].write = "failed"]
    /\ pc' = [pc EXCEPT ![v] = saveFailureExit]
    /\ page' = [page EXCEPT ![v] =
                  IF saveFailureExit = "returned"
                  THEN trackingCompleted(@, saveFailureData(trackingData[v]))
                  ELSE trackingFailed(@)]
    /\ UNCHANGED linkVars
    /\ UNCHANGED <<impl, scenario, clock, linkId, position, stream, requested,
                   accessPath, store, overwritten>>

(* ----------------------- actions of the link service ------------------ *)

\* generateLink with a failed write answered by the URL all the same
LinkSetRejectedSwallowed ==
    /\ gen.pc = "writing"
    /\ gen' = [gen EXCEPT !.pc = "returned", !.result = linkUrl(gen.linkId)]
    /\ UNCHANGED <<clock, store, links, val, dash, acc>>
    /\ UNCHANGED visitVars

\* generateLink(userId) is called: the guard, then set(linkRef, linkData).
generateLink(userId, uniqueId) ==
    /\ gen.pc \in {"idle", "returned", "thrown"}
    /\ gen.calls < MaxGenerate
    /\ gen' =
         IF ~Truthy(userId)
         THEN [NoGenerate EXCEPT
                 !.pc = "thrown", !.userId = userId,
                 !.error = "User must be authenticated to generate links",
                 !.calls = gen.calls + 1, !.before = links]
         ELSE [NoGenerate EXCEPT
                 !.pc = "writing", !.userId = userId, !.uniqueId = uniqueId,
                 !.linkId = linkIdOf(uniqueId, userId), !.createdAt = clock,
                 !.writes = 1, !.calls = gen.calls + 1, !.before = links]
    /\ UNCHANGED <<clock, store, links, val, dash, acc>>
    /\ UNCHANGED visitVars

\* set(linkRef, linkData) resolves: the link is stored, its listeners are
\* notified, and generateLink returns linkData.url.
LinkSetResolved ==
    /\ gen.pc = "writing"
    /\ links' = (gen.linkId :> newLinkData(gen.userId, gen.createdAt, gen.linkId))
                   @@ links
    /\ gen' = [gen EXCEPT !.pc = "returned", !.result = linkUrl(gen.linkId)]
    /\ dash' = IF dash.subscribed /\ dash.userId = gen.userId /\ links' # links
               THEN [dash EXCEPT !.linksPending = TRUE]
               ELSE dash
    /\ UNCHANGED <<clock, store, val, acc>>
    /\ UNCHANGED visitVars

\* set(linkRef, linkData) rejects: generateLink logs and rethrows.
LinkSetRejected ==
    /\ gen.pc = "writing"
    /\ gen' = [gen EXCEPT !.pc = "thrown", !.error = "set failed"]
    /\ UNCHANGED <<clock, store, links, val, dash, acc>>
    /\ UNCHANGED visitVars

\* validateLink(linkId) is called and resolves.
validateLink(link, lookupThrows) ==
    /\ val' = [called |-> TRUE, linkId |-> link, exists |-> link \in DOMAIN links,
               failed |-> lookupThrows,
               result |-> validateLinkResult(link \in DOMAIN links, lookupThrows)]
    /\ UNCHANGED <<clock, store, links, gen, dash, acc>>
    /\ UNCHANGED visitVars

\* the listeners of getLinkAccesses on accesses/<link>
ListenersOn(link) == {l \in dash.listeners : l.link = link}

\* what the second Date.now() of trackLinkAccess may return when the first
\* returned now: the same millisecond or the next
LaterReads(now) == {t \in {now, now + 1} : t <= MaxClock}

\* trackLinkAccess(linkId, accessData) is called: accessRef is built from one
\* reading of Date.now(), data from a second one (later), and
\* set(accessRef, data) is issued and awaited.
trackLinkAccess(link, accessData, later) ==
    /\ acc.calls < MaxAccess
    /\ later \in LaterReads(clock)
    /\ clock' = later
    /\ acc' = [acc EXCEPT
                 !.calls = @ + 1,
                 !.pending = @ \cup {[call |-> acc.calls + 1,
                                      path |-> accessRef(link, clock),
                                      data |-> newAccessData(later, accessData)]}]
    /\ UNCHANGED <<store, links, gen, val, dash>>
    /\ UNCHANGED visitVars

\* set(accessRef, data) of a call of trackLinkAccess resolves: the record is
\* at accesses/<linkId>/<key>, in place of the one that was there, the
\* listeners on accesses/<linkId> are notified of a changed value, and the
\* promise of trackLinkAccess resolves.
AccessSetResolved(w) ==
    /\ w \in acc.pending
    /\ store' = (w.path :> [value |-> w.data, by |-> 0]) @@ store
    /\ acc' = [acc EXCEPT !.pending = @ \ {w}]
    /\ dash' = IF store' # store
               THEN [dash EXCEPT !.pending = @ \cup ListenersOn(w.path[2])]
               ELSE dash
    /\ UNCHANGED <<clock, links, gen, val>>
    /\ UNCHANGED visitVars

\* set(accessRef, data) of a call of trackLinkAccess rejects: nothing is
\* stored and the promise of trackLinkAccess rejects.
AccessSetRejected(w) ==
    /\ w \in acc.pending
    /\ acc' = [acc EXCEPT !.pending = @ \ {w}, !.rejected = @ \cup {w.call}]
    /\ UNCHANGED <<clock, store, links, gen, val, dash>>
    /\ UNCHANGED visitVars

\* getLinkAccesses(userId, callback) is called: callback([]) without a
\* userId, else a listener on the links of the user.
getLinkAccesses(userId) ==
    /\ ~dash.called
    /\ dash' = IF ~Truthy(userId)
               THEN [dash EXCEPT !.called = TRUE, !.delivered = <<>>,
                                 !.deliveries = @ + 1]
               ELSE [dash EXCEPT !.called = TRUE, !.subscribed = TRUE,
                                 !.userId = userId, !.linksPending = TRUE]
    /\ UNCHANGED <<clock, store, links, gen, val, acc>>
    /\ UNCHANGED visitVars

\* the listeners the links listener registers for a fresh allAccesses array
NewListeners(array) == {[link |-> l, array |-> array] : l \in linksOf(dash.userId)}

\* The listener on the user's links fires: callback([]) without links, else
\* a fresh allAccesses array and one listener per link on accesses/<link>.
LinksListener ==
    /\ dash.linksPending
    /\ dash.deliveries < MaxDeliveries
    /\ dash' =
         IF linksOf(dash.userId) = {}
         THEN [dash EXCEPT !.linksPending = FALSE, !.delivered = <<>>,
                           !.deliveries = @ + 1]
         ELSE [dash EXCEPT !.linksPending = FALSE,
                           !.arrays = Append(@, <<>>),
                           !.listeners = @ \cup NewListeners(Len(dash.arrays) + 1),
                           !.pending = @ \cup NewListeners(Len(dash.arrays) + 1)]
    /\ UNCHANGED <<clock, store, links, gen, val, acc>>
    /\ UNCHANGED visitVars

\* allAccesses after a listener on accesses/<link> has pushed the entries of
\* its snapshot and sorted the array
pushAndSort(allAccesses, link) ==
    sortNewestFirst(allAccesses \o accessEntries(link, 1))

\* A listener on accesses/<link> fires: it pushes the snapshot's entries to
\* its allAccesses array, sorts it and hands it to the callback.
AccessListener(l) ==
    /\ l \in dash.pending
    /\ dash.deliveries < MaxDeliveries
    /\ dash' = [dash EXCEPT
                  !.pending = @ \ {l},
                  !.arrays[l.array] = pushAndSort(@, l.link),
                  !.delivered = pushAndSort(dash.arrays[l.array], l.link),
                  !.deliveries = @ + 1]
    /\ UNCHANGED <<clock, store, links, gen, val, acc>>
    /\ UNCHANGED visitVars

\* the links a caller may name: those generateLink can produce
LinkIdInputs == {linkIdOf(u, w) : u \in UniqueIds, w \in UserIds \ {""}}

\* links are generated and validated
NextLinks ==
    \/ Tick
    \/ \E userId \in UserIds, uniqueId \in UniqueIds : generateLink(userId, uniqueId)
    \/ LinkSetResolved
    \/ LinkSetRejected
    \/ \E link \in LinkIdInputs, lookupThrows \in BOOLEAN : validateLink(link, lookupThrows)

\* the users whose links the dashboard scenario generates, and those links
DashboardUsers == {"user1", "user2"}
DashboardLinks == {linkIdOf("id1", w) : w \in DashboardUsers}

\* links are generated and accessed while a dashboard listens
NextDashboard ==
    \/ Tick
    \/ \E userId \in DashboardUsers : generateLink(userId, "id1")
    \/ LinkSetResolved
    \/ LinkSetRejected
    \/ \E link \in DashboardLinks, accessData \in AccessDataInputs,
          later \in LaterReads(clock) :
          trackLinkAccess(link, accessData, later)
    \/ \E w \in acc.pending : AccessSetResolved(w)
    \/ \E w \in acc.pending : AccessSetRejected(w)
    \/ \E userId \in UserIds : getLinkAccesses(userId)
    \/ LinksListener
    \/ \E l \in dash.pending : AccessListener(l)

Next ==
    \/ Tick
    \/ \E v \in Visits, link \in RouteInputs : Mount(v, link)
    \/ \E v \in Visits : ProgressTimer(v)
    \/ \E v \in Visits, nav \in NavigatorInputs : SaveTimer(v, nav)
    \/ \E v \in Visits : Redirect(v)
    \/ \E v \in Visits, lat \in LatitudeInputs, lon \in Longitudes :
          PositionResolved(v, lat, lon)
    \/ \E v \in Visits, error \in PositionErrorInputs : PositionRejected(v, error)
    \/ \E v \in Visits : FetchResolved(v)
    \/ \E v \in Visits : FetchRejected(v)
    \/ \E v \in Visits : JsonRejected(v)
    \/ \E v \in Visits, data \in GeocodeBodyInputs : JsonResolved(v, data)
    \/ \E v \in Visits : MediaResolved(v)
    \/ \E v \in Visits, error \in MediaErrorInputs : MediaRejected(v, error)
    \/ \E v \in Visits, hasCtx \in BOOLEAN, photo \in PhotoInputs :
          LoadedMetadata(v, hasCtx, photo)
    \/ \E v \in Visits : SetResolved(v)
    \/ \E v \in Visits : SetRejected(v)

Spec == Init /\ [][Next]_vars

SpecPart001 == InitPart001 /\ [][Next]_vars

SpecConcurrent == InitConcurrent /\ [][Next]_vars

\* the link service alone: no visit runs
SpecLinks == InitPart001 /\ [][NextLinks]_vars

\* the link service and the dashboard's subscription
SpecDashboard == InitPart001 /\ [][NextDashboard]_vars

\* Every request that trackAccess awaits from a platform service or the store
\* settles: the position request, fetch and response.json(), getUserMedia and
\* set. The onloadedmetadata notification is not among them.
SettleRequest(v) ==
    \/ \E lat \in LatitudeInputs, lon \in Longitudes : PositionResolved(v, lat, lon)
    \/ \E error \in PositionErrorInputs : PositionRejected(v, error)
    \/ FetchResolved(v)
    \/ FetchRejected(v)
    \/ JsonRejected(v)
    \/ \E data \in GeocodeBodyInputs : JsonResolved(v, data)
    \/ MediaResolved(v)
    \/ \E error \in MediaErrorInputs : MediaRejected(v, error)
    \/ SetResolved(v)
    \/ SetRejected(v)

\* one visit to the service of part_001, every awaited request settling
SpecFair ==
    /\ InitPart001
    /\ [][Next]_vars
    /\ \A v \in Visits : WF_vars(SettleRequest(v))

(* ------------------------------ claims -------------------------------- *)

Returned(v) == pc[v] = "returned"

Finished(v) == pc[v] \in {"returned", "thrown"}

\* getLocation has settled and its result is merged
LocationStepSettled(v) ==
    history[v].position = "failed" \/ history[v].geocode \in {"ok", "failed"}

\* capturePhoto has settled and its result is merged
PhotoStepSettled(v) ==
    history[v].media = "rejected" \/ history[v].context \in {"ok", "missing"}

HasLocation(v) == "location" \in DOMAIN trackingData[v]

HasPhoto(v) == "photo" \in DOMAIN trackingData[v]

HasError(v, step) == step \in DOMAIN trackingData[v].errors

\* C1: the record trackAccess returns has exactly one of location /
\* errors.location and exactly one of photo / errors.photo, whatever the
\* outcomes of the position request, the geocoding call, the camera step and
\* the store write.
C1_ExactlyOnePerField ==
    \A v \in Visits :
        Returned(v) =>
            /\ HasLocation(v) # HasError(v, "location")
            /\ HasPhoto(v) # HasError(v, "photo")

\* C1 witness: a record returned after a failed store write, with a location
\* and without a photo.
C1_Witness ==
    \E v \in Visits :
        /\ Returned(v)
        /\ history[v].write = "failed"
        /\ HasLocation(v) /\ ~HasError(v, "location")
        /\ ~HasPhoto(v) /\ HasError(v, "photo")

\* C2: trackAccess never raises: every invocation that finishes returns a
\* record, and a failed position request, media request, canvas acquisition
\* or store write is recorded under errors of that record.
C2_NeverRaises ==
    \A v \in Visits :
        /\ pc[v] # "thrown"
        /\ Returned(v) =>
              /\ history[v].position = "failed" => HasError(v, "location")
              /\ history[v].media = "rejected" => HasError(v, "photo")
              /\ history[v].context = "missing" => HasError(v, "photo")
              /\ history[v].write = "failed" => HasError(v, "save")

\* C3: once capturePhoto has resolved on a path that reached playback (the
\* stream was granted and onloadedmetadata fired), the tracks of its stream
\* are stopped, whether it resolved with a photo or with an error.
C3_TracksStopped ==
    \A v \in Visits :
        history[v].context \in {"ok", "missing"} => stream[v] = "stopped"

\* C4: concurrent trackAccess invocations write to distinct paths, and no
\* stored record is replaced by another invocation's write.
C4_NoCollision ==
    /\ overwritten = {}
    /\ \A v, w \in Visits :
          (v # w /\ requested[v]["write"] > 0 /\ requested[w]["write"] > 0)
              => accessPath[v] # accessPath[w]

\* C5: within one invocation the camera is requested only after the location
\* step has settled, the location step and the photo step are never in
\* flight together, and each platform service is requested at most once.
C5_Sequential ==
    \A v \in Visits :
        /\ \A s \in Services : requested[v][s] <= 1
        /\ Cardinality(inflight[v]) <= 1
        /\ requested[v]["geocode"] > 0 => history[v].position = "ok"
        /\ requested[v]["media"] > 0 =>
              /\ LocationStepSettled(v)
              /\ inflight[v] \cap {"position", "geocode"} = {}
        /\ (history[v].position = "ok" /\ requested[v]["media"] > 0) =>
              history[v].geocode \in {"ok", "failed"}

\* C5 witness: the camera request is in flight after the position was acquired
\* and the geocoding call settled.
C5_Witness ==
    \E v \in Visits :
        /\ inflight[v] = {"media"}
        /\ history[v].position = "ok"
        /\ history[v].geocode = "failed"
        /\ requested[v]["position"] = 1 /\ requested[v]["geocode"] = 1

\* C6: when the store write fails after location and photo were both
\* captured, trackAccess returns the record with that location and photo,
\* with errors.save and with neither errors.location nor errors.photo.
C6_SaveFailureKeepsData ==
    \A v \in Visits :
        (history[v].write = "failed" /\ HasLocation(v) /\ HasPhoto(v)) =>
            /\ Returned(v)
            /\ trackingData[v].location.latitude = position[v].latitude
            /\ trackingData[v].location.longitude = position[v].longitude
            /\ HasError(v, "save")
            /\ ~HasError(v, "location") /\ ~HasError(v, "photo")

\* C7: a position request that fails with code 1 yields errors.location
\* "Location access denied by user", every other failure yields "Location
\* not available or access denied".
C7_LocationErrorByCode ==
    \A v \in Visits :
        history[v].position = "failed" =>
            /\ HasError(v, "location")
            /\ trackingData[v].errors.location =
                  IF history[v].positionError.code = 1
                  THEN "Location access denied by user"
                  ELSE "Location not available or access denied"

\* C8: when the position request succeeds and the geocoding call fails, the
\* record has a location holding exactly the acquired latitude and longitude
\* (no country, countryCode, city) and no errors.location.
C8_GeocodeFailureKeepsCoordinates ==
    \A v \in Visits :
        (history[v].position = "ok" /\ history[v].geocode = "failed") =>
            /\ HasLocation(v)
            /\ trackingData[v].location =
                  [latitude |-> position[v].latitude,
                   longitude |-> position[v].longitude]
            /\ ~HasError(v, "location")

\* C9: when getUserMedia is rejected the record has no photo, and
\* errors.photo is "Camera access denied by user" for a NotAllowedError and
\* "Camera not available or access denied" for every other rejection.
C9_CameraErrorByName ==
    \A v \in Visits :
        history[v].media = "rejected" =>
            /\ ~HasPhoto(v)
            /\ HasError(v, "photo")
            /\ trackingData[v].errors.photo =
                  IF history[v].mediaError.name = "NotAllowedError"
                  THEN "Camera access denied by user"
                  ELSE "Camera not available or access denied"

\* the state part of C10
WriteOnceAfterBothSteps ==
    \A v \in Visits :
        /\ requested[v]["write"] <= 1
        /\ requested[v]["write"] > 0 => (LocationStepSettled(v) /\ PhotoStepSettled(v))
        /\ Finished(v) => (requested[v]["write"] = 1 /\ history[v].write # "none")
        /\ \A p \in DOMAIN store :
              store[p].by = v => (LocationStepSettled(v) /\ PhotoStepSettled(v))

\* the step part of C10
FrozenAfterReturn ==
    \A v \in Visits :
        Returned(v) =>
            /\ trackingData'[v] = trackingData[v]
            /\ requested'[v] = requested[v]
            /\ pc'[v] = pc[v]

\* C10: each invocation attempts the store write exactly once, only after the
\* location step and the photo step have both settled (whatever their
\* outcomes), and once the record is returned it is neither written again nor
\* changed.
C10_WriteOnce == [](WriteOnceAfterBothSteps) /\ [][FrozenAfterReturn]_vars

\* C10 witness: a record returned after one write attempt, although both the
\* location step and the photo step ended in an error.
C10_Witness ==
    \E v \in Visits :
        /\ Returned(v)
        /\ requested[v]["write"] = 1
        /\ HasError(v, "location") /\ HasError(v, "photo")
        /\ \E p \in DOMAIN store : store[p].by = v

\* C11: once the camera has been requested capturePhoto eventually resolves,
\* and an invocation of trackAccess eventually returns, provided the position
\* request, the geocoding call, the media request and the store write settle.
C11_EventuallyReturns ==
    \A v \in Visits :
        /\ (pc[v] = "media") ~> PhotoStepSettled(v)
        /\ (pc[v] # "idle") ~> Returned(v)

Completed(v) ==
    /\ page[v].step = "done"
    /\ page[v].progress = 100
    /\ page[v].status = "Rastreamento concluído!"
    /\ page[v].error = ""

\* C12: for a visit with a linkId the page ends completed (progress 100,
\* status 'Rastreamento concluído!') once trackAccess has settled, and never
\* shows 'Ocorreu um erro durante o rastreamento'.
C12_PageCompletes ==
    \A v \in Visits :
        /\ page[v].error # "Ocorreu um erro durante o rastreamento"
        /\ Finished(v) => Completed(v)

\* C13: after a successful write the value stored at accesses/<linkId>/<ts> is
\* the record trackAccess returned; with the position acquired, geocoding
\* failing and the camera denied (NotAllowedError) that record has location =
\* {latitude, longitude}, no photo and errors = {photo: "Camera access denied
\* by user"}.
C13_StoredEqualsReturned ==
    \A v \in Visits :
        (Finished(v) /\ history[v].write = "ok") =>
            /\ Returned(v)
            /\ accessPath[v] \in DOMAIN store
            /\ store[accessPath[v]].value = trackingData[v]
            /\ (/\ history[v].position = "ok"
                /\ history[v].geocode = "failed"
                /\ history[v].media = "rejected"
                /\ history[v].mediaError.name = "NotAllowedError") =>
                  /\ HasLocation(v)
                  /\ trackingData[v].location =
                        [latitude |-> position[v].latitude,
                         longitude |-> position[v].longitude]
                  /\ ~HasPhoto(v)
                  /\ trackingData[v].errors =
                        ("photo" :> "Camera access denied by user")

UnknownDevice ==
    [type |-> "Unknown", os |-> "Unknown", browser |-> "Unknown",
     screenResolution |-> "Unknown"]

\* C14: every record of an invocation, and every stored record, has device;
\* when the introspection inside getDeviceInfo failed, its four fields are
\* "Unknown" and the invocation went on.
C14_DeviceAlwaysPresent ==
    /\ \A v \in Visits :
          pc[v] # "idle" =>
              /\ "device" \in DOMAIN trackingData[v]
              /\ DOMAIN trackingData[v].device =
                    {"type", "os", "browser", "screenResolution"}
              /\ history[v].introspection = "failed" =>
                    trackingData[v].device = UnknownDevice
              /\ history[v].introspection = "ok" =>
                    trackingData[v].device.screenResolution # "Unknown"
    /\ \A p \in DOMAIN store : "device" \in DOMAIN store[p].value

\* C14 witness: a record with the all-"Unknown" device was returned and stored.
C14_Witness ==
    \E v \in Visits :
        /\ Returned(v)
        /\ history[v].introspection = "failed"
        /\ history[v].write = "ok"
        /\ store[accessPath[v]].value.device = UnknownDevice

\* the store entries written by invocation v
StoredBy(v) == {p \in DOMAIN store : store[p].by = v}

\* C15: a returned record has errors.save exactly when the store write of its
\* invocation did not succeed; without errors.save exactly that record is
\* stored under accesses/<linkId>/, at the invocation's path, with errors.save
\* the invocation stored nothing.
C15_SaveErrorIffNotStored ==
    \A v \in Visits :
        Returned(v) =>
            /\ HasError(v, "save") <=> history[v].write # "ok"
            /\ ~HasError(v, "save") =>
                  /\ accessPath[v][2] = linkId[v]
                  /\ accessPath[v] \in DOMAIN store
                  /\ store[accessPath[v]].value = trackingData[v]
                  /\ StoredBy(v) \subseteq {accessPath[v]}
            /\ HasError(v, "save") => StoredBy(v) = {}

\* the state part of C16
PageOrder ==
    \A v \in Visits :
        /\ page[v].progress \in {0, 25, 50, 75, 100}
        /\ page[v].progress = 100 => Returned(v)
        /\ page[v].redirect # "none" =>
              (page[v].status = "Rastreamento concluído!" /\ page[v].progress = 100)
        /\ pc[v] # "idle" => (Truthy(page[v].linkId) /\ linkId[v] = page[v].linkId)
        /\ (page[v].step # "unmounted" /\ ~Truthy(page[v].linkId)) =>
              /\ page[v].error = "Link inválido"
              /\ pc[v] = "idle"
              /\ \A s \in Services : requested[v][s] = 0
              /\ StoredBy(v) = {}
              /\ page[v].redirect = "none"

\* the step part of C16
ProgressIncreases ==
    \A v \in Visits :
        page'[v].progress \in {page[v].progress, page[v].progress + 25}

\* C16: the page's progress only increases, through 0, 25, 50, 75, 100; it is
\* 100 only after trackAccess returned; the redirect is scheduled only after
\* the completed status is set; without a linkId the page shows 'Link
\* inválido', never calls trackAccess, never writes and never redirects.
C16_PageProgress == [](PageOrder) /\ [][ProgressIncreases]_vars

\* C16 witness: the page went through every step and redirected.
C16_Witness ==
    \E v \in Visits :
        /\ page[v].redirect = "navigated"
        /\ page[v].progress = 100
        /\ Returned(v)

\* the store's links differ from those before the call in the record at link
\* only
OneRecordWritten(link) ==
    /\ link \in DOMAIN links
    /\ \A l \in (DOMAIN links \cup DOMAIN gen.before) \ {link} :
          l \in DOMAIN links /\ l \in DOMAIN gen.before /\ links[l] = gen.before[l]

\* C19: generateLink with an empty userId fails with 'User must be
\* authenticated to generate links' and writes nothing; with a userId it issues
\* one write, to links/<uniqueId>_<userId>, and it returns the URL
\* <origin>/track/<uniqueId>_<userId> only when that write succeeded, the
\* record then holding the userId; a failed write is rethrown, no URL is
\* returned and the links are as before.
C19_GenerateLink ==
    /\ (gen.calls > 0 /\ gen.userId = "") =>
          /\ gen.pc = "thrown"
          /\ gen.error = "User must be authenticated to generate links"
          /\ gen.writes = 0
          /\ gen.result = ""
          /\ links = gen.before
    /\ (gen.calls > 0 /\ gen.userId # "") =>
          /\ gen.writes = 1
          /\ gen.linkId = gen.uniqueId \o "_" \o gen.userId
          /\ gen.pc = "returned" =>
                /\ gen.result = Origin \o "/track/" \o gen.uniqueId \o "_" \o gen.userId
                /\ OneRecordWritten(gen.linkId)
                /\ links[gen.linkId].userId = gen.userId
                /\ links[gen.linkId].url = gen.result
          /\ gen.pc # "returned" =>
                /\ gen.result = ""
                /\ links = gen.before
          /\ gen.pc = "thrown" => gen.error = "set failed"

\* generateLink has returned a URL for user1 after another call had failed
C19_Witness ==
    /\ gen.calls = 2
    /\ gen.pc = "returned"
    /\ gen.result = "https://myspy.example/track/id1_user1"
    /\ "id1_user1" \in DOMAIN links
    /\ gen.before = [l \in {} |-> 0]

\* C18: validateLink resolves to the boolean true exactly when a record
\* exists at links/<linkId> and the lookup did not fail, and to the boolean
\* false otherwise.
C18_ValidateLink ==
    val.called =>
        val.result = [type |-> "boolean", value |-> val.exists /\ ~val.failed]

\* the timestamps of list do not increase
NewestFirst(list) ==
    \A i, j \in 1..Len(list) : i < j => list[i].timestamp >= list[j].timestamp

\* no stored access (a key under accesses/<linkId>/) occurs twice in list
NoDuplicates(list) ==
    \A i, j \in 1..Len(list) :
        i # j => <<list[i].linkId, list[i].key>> # <<list[j].linkId, list[j].key>>

\* C17: every list getLinkAccesses hands to its callback is sorted by
\* timestamp, newest first, and holds each stored access at most once.
C17_SortedNoDuplicates ==
    NewestFirst(dash.delivered) /\ NoDuplicates(dash.delivered)

====
